---- MODULE Spec2Model ----
(***************************************************************************)
(* Model of avs_scripts/avs_s4/train.py: Lite.run executed by the          *)
(* processes that Lite(accelerator='gpu', strategy='ddp', devices=2)       *)
(* launches.  Every process runs the same run(args); the only coupling     *)
(* between them is the gradient all-reduce of the DDP-wrapped model and    *)
(* the shared file system.                                                 *)
(*                                                                         *)
(* Abstractions: a parameter tensor is an integer, a gradient is an        *)
(* integer determined by the batch, an average is the exact rational       *)
(* <<sum, count>>, an mIoU is a rational in [0, 1] with denominator        *)
(* MiouScale.                                                              *)
(***************************************************************************)
EXTENDS Integers, Sequences, FiniteSets, TLC

\* ---------------------------------------------------------------- bounds
MaxEpochs == 17
MaxTrainSize == 3
MaxValSize == 2
MiouScale == 2

\* ------------------------------------------------------ program constants
NumDevices == 2
LogEvery == 50

Replicas == 1..NumDevices

\* ------------------------------------------------------------- strings
\* A name is a sequence of characters, so that str.lower() is computed.
LowerChar(c) ==
    CASE c = "R" -> "r" [] c = "E" -> "e" [] c = "S" -> "s" [] c = "N" -> "n"
      [] c = "T" -> "t" [] c = "P" -> "p" [] c = "V" -> "v" [] c = "I" -> "i"
      [] OTHER -> c

Lower(s) == [i \in DOMAIN s |-> LowerChar(s[i])]

NameResnet == <<"r", "e", "s", "n", "e", "t">>
NamePvt == <<"p", "v", "t">>

BackboneNames ==
    { NameResnet, <<"P", "V", "T">>, <<"v", "i", "t">> }

\* Faulty variant: the else branch falls back to a default model instead of raising.
BackboneBranchFallback(name) ==
    IF Lower(name) = NameResnet THEN "ResNet_AVSModel" ELSE "PVT_AVSModel"

\* The branch taken by the if / elif / else on args.visual_backbone.
BackboneBranch(name) ==
    IF Lower(name) = NameResnet THEN "ResNet_AVSModel"
    ELSE IF Lower(name) = NamePvt THEN "PVT_AVSModel"
    ELSE "NotImplementedError"

\* ------------------------------------------------------ name resolution
\* Names bound at module level of train.py (imports, classes, main, and the
\* names bound under `if __name__ == "__main__"`).
ModuleGlobals ==
    { "os", "time", "random", "shutil", "torch", "np", "argparse", "logging",
      "pl", "LightningLite", "cfg", "S4Dataset", "vggish",
      "IouSemanticAwareLoss", "pyutils", "logger", "mask_iou",
      "setup_logging", "AudioExtractor", "Lite", "main", "parser", "args" }

\* Names bound inside main(args); they are locals of main.
MainLocals ==
    { "args", "prefix", "log_dir", "script_path", "scripts_to_save", "script",
      "dst_path", "checkpoint_dir", "log_path", "logger" }

\* Names bound inside Lite.run(self, args).
RunLocals ==
    { "self", "args", "AVSModel", "model", "audio_backbone", "param",
      "optimizer", "avg_meter_total_loss", "avg_meter_iou_loss",
      "avg_meter_sa_loss", "avg_meter_miou", "train_dataset",
      "train_dataloader", "max_step", "val_dataset", "val_dataloader",
      "best_epoch", "global_step", "miou_list", "max_miou", "epoch", "n_iter",
      "batch_data", "imgs", "audio", "mask", "B", "frame", "C", "H", "W",
      "audio_feature", "output", "visual_map_list", "a_fea_list", "loss",
      "loss_dict", "train_log", "_", "miou", "model_save_path", "val_log" }

\* Python looks a name used in run up in run's locals, then the module.
ResolvesInRun(name) == name \in RunLocals \cup ModuleGlobals

\* ------------------------------------------------------------ rationals
Rat(n, d) == <<n, d>>
RatGT(a, b) == a[1] * b[2] > b[1] * a[2]
RatEq(a, b) == a[1] * b[2] = b[1] * a[2]

\* Python's max(list): the first maximal element.
RECURSIVE PyMaxFrom(_, _, _)
PyMaxFrom(list, i, best) ==
    IF i > Len(list) THEN best
    ELSE PyMaxFrom(list, i + 1, IF RatGT(list[i], best) THEN list[i] ELSE best)

PyMax(list) == PyMaxFrom(list, 2, list[1])

RECURSIVE SumSet(_)
SumSet(S) ==
    IF S = {} THEN 0
    ELSE LET x == CHOOSE y \in S : TRUE IN x + SumSet(S \ {x})

\* ---------------------------------------------------------- AverageMeter
EmptyMeter == [sum |-> 0, count |-> 0]
MeterAdd(m, v) == [sum |-> m.sum + v, count |-> m.count + 1]
MeterMean(m) == Rat(m.sum, m.count)

\* -------------------------------------------------- external collaborators
\* A training batch is the set of samples the loader put in it.  The loss
\* terms and the local gradient are functions of the batch.
IouLossOf(batch) == SumSet(batch)
SaLossOf(batch) == Cardinality(batch)
GradOf(batch) == SumSet(batch)

\* IouSemanticAwareLoss(..., lambda_1, count_stages, sa_loss_flag, ...)
IouSemanticAwareLoss(batch, lambda_1, count_stages, sa_loss_flag) ==
    LET iou == IouLossOf(batch)
        sa == IF sa_loss_flag /\ count_stages # {} THEN SaLossOf(batch) ELSE 0
    IN [loss |-> iou + lambda_1 * sa, iou_loss |-> iou, sa_loss |-> sa]

\* ----------------------------------------------------------------- inputs
LossConfigs ==
    { [sa_loss_flag |-> FALSE, lambda_1 |-> 0, sa_loss_stages |-> {}],
      [sa_loss_flag |-> FALSE, lambda_1 |-> 2, sa_loss_stages |-> {1}],
      [sa_loss_flag |-> TRUE, lambda_1 |-> 2, sa_loss_stages |-> {}],
      [sa_loss_flag |-> TRUE, lambda_1 |-> 1, sa_loss_stages |-> {1}] }

EpochChoices == {0, 1, MaxEpochs}

\* The command line and the two datasets, the same for every process.
AllArgs ==
    { [visual_backbone |-> vb, max_epoches |-> me, train_batch_size |-> bs,
       train_size |-> ts, val_size |-> vs, val_batch_size |-> 1,
       sa_loss_flag |-> lc.sa_loss_flag, lambda_1 |-> lc.lambda_1,
       sa_loss_stages |-> lc.sa_loss_stages, missing_script |-> ms] :
        ms \in {0, 1, 8}, vb \in BackboneNames, me \in EpochChoices, bs \in {1, 2},
        ts \in 1..MaxTrainSize, vs \in 0..MaxValSize, lc \in LossConfigs }

\* Runs of more than one epoch are explored for one configuration, long
\* enough to pass training step 50; a script missing from the working
\* directory (missing_script # 0) ends main, so one configuration suffices.
ArgSpace ==
    { a \in AllArgs :
        (a.max_epoches > 1 \/ a.missing_script # 0) =>
            /\ a.visual_backbone = NameResnet
            /\ a.train_batch_size = 1 /\ a.train_size = 3
            /\ a.val_size = 1 /\ a.sa_loss_flag /\ a.sa_loss_stages # {} }

\* ---------------------------------------------------------------- main
\* Destination directory of each entry of scripts_to_save, in order
\* (entries 7 and 8 are the two files under ./model/).
ScriptDstDirs ==
    <<"scripts", "scripts", "scripts", "scripts", "scripts", "scripts",
      "scripts/model", "scripts/model", "scripts">>

\* shutil.copy(script, dst_path): IOError when the source file or the
\* destination directory is missing.
CopyOk(i, have, missing) == i # missing /\ ScriptDstDirs[i] \in have

\* Faulty variant: the handler copies again without creating the directory.
HandlerDirsUnchanged(i, have) == have

\* `os.makedirs(os.path.dirname(dst_path), exist_ok=True)` in the handler.
HandlerDirs(i, have) == have \cup {ScriptDstDirs[i]}

\* The copy loop of main: try the copy; on IOError create the destination
\* directory and copy once more, outside any handler.
RECURSIVE CopyScripts(_, _, _, _)
CopyScripts(i, have, tries, missing) ==
    IF i > Len(ScriptDstDirs)
    THEN [dirs |-> have, tries |-> tries, failed |-> FALSE]
    ELSE IF CopyOk(i, have, missing)
    THEN CopyScripts(i + 1, have, Append(tries, [script |-> i, ok |-> TRUE]),
                     missing)
    ELSE LET have2 == HandlerDirs(i, have)
             first == Append(tries, [script |-> i, ok |-> FALSE])
         IN IF CopyOk(i, have2, missing)
            THEN CopyScripts(i + 1, have2,
                             Append(first, [script |-> i, ok |-> TRUE]), missing)
            ELSE [dirs |-> have2,
                  tries |-> Append(first, [script |-> i, ok |-> FALSE]),
                  failed |-> TRUE]

\* torch.save into the checkpoints directory: one call, no handler.
SaveSucceeds(have) == "checkpoints" \in have

\* ------------------------------------------------------ frozen extractor
\* Faulty variant: the optimizer is built over both modules.
OptimizerParamsBoth == {"model", "audio_backbone"}

\* torch.optim.Adam(model.parameters(), args.lr)
OptimizerParams == {"model"}

\* `param.requires_grad = False` for every parameter of audio_backbone.
AudioRequiresGrad == FALSE

\* optimizer.step() on one module's parameters: only parameters the
\* optimizer holds and that have a gradient are moved.
OptimizerStep(module, value, g, held, requires_grad) ==
    IF module \in held /\ requires_grad THEN value - g ELSE value

Unset == 0 - 1
NoFile == [exists |-> FALSE]

VARIABLES
    args,                  \* parsed command line plus dataset sizes
    pc,                    \* position of each process in run
    err,                   \* exception that ended the process, or "none"
    AVSModel,              \* model class imported by the backbone branch
    datasets,              \* TRUE once S4Dataset("train"/"val") were built
    param,                 \* trainable parameters of the replica
    model_mode,            \* "train" or "eval"
    avg_meter_total_loss, avg_meter_iou_loss, avg_meter_sa_loss, avg_meter_miou,
    max_step, best_epoch, global_step, miou_list, max_miou, epoch,
    train_pending,         \* samples the train loader has not yet yielded
    grad,                  \* gradient held by the replica (local, then reduced)
    val_iter,              \* validation batches consumed in this pass
    logs,                  \* lines the process gave to logger.info
    saves,                 \* number of torch.save calls of the process
    ckpt_file,             \* <checkpoint_dir>/<session_name>_best.pth
    dirs,                  \* directories under the process's log directory
    copy_tries,            \* the shutil.copy calls of main, in order
    audio_param,           \* parameters of the audio backbone of the replica
    audio_requires_grad,   \* requires_grad of the audio backbone's parameters
    optimizer_params,      \* modules whose parameters the optimizer holds
    opt_steps,             \* optimizer.step() calls (the optimizer's state)
    oracle, oracle_epoch   \* mask_iou of the current epoch's parameters

locals ==
    <<AVSModel, datasets, param, model_mode, avg_meter_total_loss,
      avg_meter_iou_loss, avg_meter_sa_loss, avg_meter_miou, max_step,
      best_epoch, global_step, miou_list, max_miou, epoch, train_pending,
      grad, val_iter, audio_param, audio_requires_grad, optimizer_params,
      opt_steps>>

vars ==
    <<args, pc, err, locals, logs, saves, ckpt_file, dirs, copy_tries, oracle,
      oracle_epoch>>

\* ------------------------------------------------------------- loaders
TrainSamples == 1..args.train_size

\* ceil(len(dataset) / batch_size): DataLoader keeps the last short batch.
NumValBatches ==
    (args.val_size + args.val_batch_size - 1) \div args.val_batch_size

\* The batches a shuffling loader may yield next from the samples left.
NextTrainBatches(pending) ==
    LET n == IF Cardinality(pending) < args.train_batch_size
             THEN Cardinality(pending) ELSE args.train_batch_size
    IN { b \in SUBSET pending : Cardinality(b) = n }

Init ==
    /\ args \in ArgSpace
    /\ pc = [r \in Replicas |-> "main"]
    /\ err = [r \in Replicas |-> "none"]
    /\ AVSModel = [r \in Replicas |-> "none"]
    /\ datasets = [r \in Replicas |-> FALSE]
    /\ param = [r \in Replicas |-> 0]
    /\ model_mode = [r \in Replicas |-> "none"]
    /\ avg_meter_total_loss = [r \in Replicas |-> EmptyMeter]
    /\ avg_meter_iou_loss = [r \in Replicas |-> EmptyMeter]
    /\ avg_meter_sa_loss = [r \in Replicas |-> EmptyMeter]
    /\ avg_meter_miou = [r \in Replicas |-> EmptyMeter]
    /\ max_step = [r \in Replicas |-> 0]
    /\ best_epoch = [r \in Replicas |-> 0]
    /\ global_step = [r \in Replicas |-> 0]
    /\ miou_list = [r \in Replicas |-> <<>>]
    /\ max_miou = [r \in Replicas |-> Rat(0, 1)]
    /\ epoch = [r \in Replicas |-> 0]
    /\ train_pending = [r \in Replicas |-> {}]
    /\ grad = [r \in Replicas |-> 0]
    /\ val_iter = [r \in Replicas |-> 0]
    /\ logs = [r \in Replicas |-> <<>>]
    /\ saves = [r \in Replicas |-> 0]
    /\ ckpt_file = NoFile
    /\ dirs = [r \in Replicas |-> {}]
    /\ copy_tries = [r \in Replicas |-> <<>>]
    /\ audio_param = [r \in Replicas |-> 0]
    /\ audio_requires_grad = [r \in Replicas |-> TRUE]
    /\ optimizer_params = [r \in Replicas |-> {}]
    /\ opt_steps = [r \in Replicas |-> 0]
    /\ oracle = [i \in 1..MaxValSize |-> Unset]
    /\ oracle_epoch = 0

\* ------------------------------------------------------------ decisions
\* `if miou > max_miou:`
IsImprovement(miou, best) == RatGT(miou, best)

\* Faulty variant: `best_epoch = epoch` dedented out of the if.
BestEpochAlways(improved, e, old) == e

\* `best_epoch = epoch` sits inside the if.
BestEpochAfter(improved, e, old) == IF improved THEN e ELSE old

\* Faulty variant: "no best epoch yet" as the initial value.
InitBestEpochNone == 0 - 1

\* `best_epoch = 0` before the loop.
InitBestEpoch == 0

\* `max_miou = 0` before the loop.
InitMaxMiou == Rat(0, 1)

\* Faulty variant: the test reads the step count after the increment.
LogDuePostIncrement(step) == step % LogEvery = 0

\* `if (global_step - 1) % 50 == 0:` evaluated after `global_step += 1`.
LogDue(step) == (step - 1) % LogEvery = 0

\* max_step = (len(train_dataset) // args.train_batch_size) * args.max_epoches
MaxStepOf(a) == (a.train_size \div a.train_batch_size) * a.max_epoches

\* Faulty variant: the model is not wrapped, backward leaves the local gradient.
LocalGradient(g, r) == g[r]

\* Gradient every replica holds after backward on the DDP-wrapped model:
\* the reduction of the local gradients of all replicas (kept as the sum;
\* the division by the world size is folded into the learning rate).
AllReduced(g, r) == LET S == Replicas IN
    LET RECURSIVE Acc(_)
        Acc(T) == IF T = {} THEN 0
                  ELSE LET q == CHOOSE x \in T : TRUE IN g[q] + Acc(T \ {q})
    IN Acc(S)

\* The process that logger.info and torch.save are executed by: run has no
\* rank test, so every process executes them.
EmitsSideEffects(r) == TRUE

\* Lines handed to logger.info (only by processes that execute the call).
Emit(r, lines) == IF EmitsSideEffects(r) THEN logs[r] \o lines ELSE logs[r]

TrainLine(step, ms, total, iou, sa) ==
    [kind |-> "train", step |-> step, max_step |-> ms, total |-> total,
     iou |-> iou, sa |-> sa]
SaveLine == [kind |-> "save"]
ValLine(e, miou, best) == [kind |-> "val", epoch |-> e, miou |-> miou, best |-> best]
BestLine(best, e) == [kind |-> "best", miou |-> best, epoch |-> e]

\* Head of `for epoch in range(args.max_epoches)` and what follows the loop.
LoopPc(e) == IF e < args.max_epoches THEN "train" ELSE "done"
LoopLines(e, best, be) == IF e < args.max_epoches THEN <<>> ELSE <<BestLine(best, be)>>

Crash(r, what) ==
    /\ pc' = [pc EXCEPT ![r] = "crashed"]
    /\ err' = [err EXCEPT ![r] = what]

\* ------------------------------------------------------- steps of a batch
\* Faulty variant: the auxiliary term is requested whatever the flag says.
LossCallIgnoringFlag(batch, a) ==
    IouSemanticAwareLoss(batch, a.lambda_1, a.sa_loss_stages, TRUE)

\* The call of IouSemanticAwareLoss with the run's arguments.
LossCall(batch, a) ==
    IouSemanticAwareLoss(batch, a.lambda_1, a.sa_loss_stages, a.sa_loss_flag)

\* Faulty variant: the add is missing.
RecordLossSkipped(m, v) == m

\* avg_meter_*.add(...), right after the loss and before zero_grad.
RecordLoss(m, v) == MeterAdd(m, v)

\* Faulty variant: the counter advances by the number of replicas.
NextGlobalStepByWorld(step) == step + NumDevices

\* `global_step += 1`
NextGlobalStep(step) == step + 1

\* Faulty variant: the model is left in evaluation mode.
ModeAfterValidationStale == "eval"

\* `model.train()` after the validation block.
ModeAfterValidation == "train"

\* Faulty variant: the validation forward also moves the parameters.
ValForwardTrains(p) == p - 1

\* model(imgs, audio_feature) under torch.no_grad(): parameters as before.
ValForward(p) == p

\* ---------------------------------------------------------------- actions
\* main(args) of the process: log directory, script copies, checkpoints
\* and log directories, then Lite(...).run(args).
Main(r) ==
    /\ pc[r] = "main"
    /\ LET res == CopyScripts(1, {"log_dir", "scripts"}, <<>>, args.missing_script) IN
       /\ copy_tries' = [copy_tries EXCEPT ![r] = res.tries]
       /\ IF res.failed
          THEN /\ Crash(r, "IOError")
               /\ dirs' = [dirs EXCEPT ![r] = res.dirs]
          ELSE /\ pc' = [pc EXCEPT ![r] = "start"]
               /\ dirs' = [dirs EXCEPT ![r] = res.dirs \cup {"checkpoints", "log"}]
               /\ UNCHANGED err
    /\ UNCHANGED <<args, locals, logs, saves, ckpt_file, oracle, oracle_epoch>>

\* run(): backbone selection, model, frozen audio backbone, optimizer,
\* setup, meters, loaders, the initial training state and the entry into
\* the epoch loop.
Start(r) ==
    /\ pc[r] = "start"
    /\ LET branch == BackboneBranch(args.visual_backbone) IN
       IF branch = "NotImplementedError"
       THEN /\ Crash(r, "NotImplementedError")
            /\ UNCHANGED <<args, locals, logs, saves, ckpt_file, dirs, copy_tries,
                           oracle, oracle_epoch>>
       ELSE /\ AVSModel' = [AVSModel EXCEPT ![r] = branch]
            /\ audio_param' = [audio_param EXCEPT ![r] = 0]
            /\ audio_requires_grad' = [audio_requires_grad EXCEPT ![r] = AudioRequiresGrad]
            /\ optimizer_params' = [optimizer_params EXCEPT ![r] = OptimizerParams]
            /\ opt_steps' = [opt_steps EXCEPT ![r] = 0]
            /\ datasets' = [datasets EXCEPT ![r] = TRUE]
            /\ param' = [param EXCEPT ![r] = 0]
            /\ model_mode' = [model_mode EXCEPT ![r] = "train"]
            /\ max_step' = [max_step EXCEPT ![r] = MaxStepOf(args)]
            /\ best_epoch' = [best_epoch EXCEPT ![r] = InitBestEpoch]
            /\ global_step' = [global_step EXCEPT ![r] = 0]
            /\ miou_list' = [miou_list EXCEPT ![r] = <<>>]
            /\ max_miou' = [max_miou EXCEPT ![r] = InitMaxMiou]
            /\ epoch' = [epoch EXCEPT ![r] = 0]
            /\ train_pending' = [train_pending EXCEPT ![r] = TrainSamples]
            /\ pc' = [pc EXCEPT ![r] = LoopPc(0)]
            /\ logs' = [logs EXCEPT ![r] = Emit(r, LoopLines(0, InitMaxMiou, InitBestEpoch))]
            /\ UNCHANGED <<args, err, avg_meter_total_loss, avg_meter_iou_loss,
                           avg_meter_sa_loss, avg_meter_miou, grad, val_iter,
                           saves, ckpt_file, dirs, copy_tries, oracle, oracle_epoch>>

\* One training batch up to the point where backward waits for the other
\* replicas: fetch, forward, loss, the three meter adds, zero_grad, backward.
TrainForward(r) ==
    /\ pc[r] = "train"
    /\ \E batch \in NextTrainBatches(train_pending[r]) :
         LET l == LossCall(batch, args)
         IN /\ avg_meter_total_loss' =
                  [avg_meter_total_loss EXCEPT ![r] = RecordLoss(@, l.loss)]
            /\ avg_meter_iou_loss' =
                  [avg_meter_iou_loss EXCEPT ![r] = RecordLoss(@, l.iou_loss)]
            /\ avg_meter_sa_loss' =
                  [avg_meter_sa_loss EXCEPT ![r] = RecordLoss(@, l.sa_loss)]
            /\ grad' = [grad EXCEPT ![r] = GradOf(batch)]
            /\ train_pending' = [train_pending EXCEPT ![r] = @ \ batch]
    /\ pc' = [pc EXCEPT ![r] = "backward"]
    /\ UNCHANGED <<args, err, AVSModel, datasets, param, model_mode,
                   avg_meter_miou, max_step, best_epoch, global_step,
                   miou_list, max_miou, epoch, val_iter, logs, saves,
                   ckpt_file, dirs, copy_tries, audio_param, audio_requires_grad,
                   optimizer_params, opt_steps, oracle, oracle_epoch>>

\* The collective inside loss.backward(): it completes for all replicas
\* together, once every replica has entered it.
AllReduce ==
    /\ \A r \in Replicas : pc[r] = "backward"
    /\ grad' = [r \in Replicas |-> AllReduced(grad, r)]
    /\ pc' = [r \in Replicas |-> "step"]
    /\ UNCHANGED <<args, err, AVSModel, datasets, param, model_mode,
                   avg_meter_total_loss, avg_meter_iou_loss, avg_meter_sa_loss,
                   avg_meter_miou, max_step, best_epoch, global_step,
                   miou_list, max_miou, epoch, train_pending, val_iter, logs,
                   saves, ckpt_file, dirs, copy_tries, audio_param, audio_requires_grad,
                   optimizer_params, opt_steps, oracle, oracle_epoch>>

\* optimizer.step(), global_step += 1, the log test, and the end of the
\* training pass (model.eval()) when the loader is exhausted.
TrainStep(r) ==
    /\ pc[r] = "step"
    /\ param' = [param EXCEPT ![r] =
                    OptimizerStep("model", @, grad[r], optimizer_params[r], TRUE)]
    /\ audio_param' = [audio_param EXCEPT ![r] =
                    OptimizerStep("audio_backbone", @, grad[r],
                                  optimizer_params[r], audio_requires_grad[r])]
    /\ opt_steps' = [opt_steps EXCEPT ![r] = @ + 1]
    /\ global_step' = [global_step EXCEPT ![r] = NextGlobalStep(@)]
    /\ IF LogDue(NextGlobalStep(global_step[r]))
       THEN /\ logs' = [logs EXCEPT ![r] = Emit(r,
                          <<TrainLine(NextGlobalStep(global_step[r]) - 1, max_step[r],
                                      MeterMean(avg_meter_total_loss[r]),
                                      MeterMean(avg_meter_iou_loss[r]),
                                      MeterMean(avg_meter_sa_loss[r]))>>)]
            /\ avg_meter_total_loss' = [avg_meter_total_loss EXCEPT ![r] = EmptyMeter]
            /\ avg_meter_iou_loss' = [avg_meter_iou_loss EXCEPT ![r] = EmptyMeter]
            /\ avg_meter_sa_loss' = [avg_meter_sa_loss EXCEPT ![r] = EmptyMeter]
       ELSE UNCHANGED <<logs, avg_meter_total_loss, avg_meter_iou_loss,
                        avg_meter_sa_loss>>
    /\ IF train_pending[r] = {}
       THEN /\ pc' = [pc EXCEPT ![r] = "val"]
            /\ model_mode' = [model_mode EXCEPT ![r] = "eval"]
            /\ val_iter' = [val_iter EXCEPT ![r] = 0]
       ELSE /\ pc' = [pc EXCEPT ![r] = "train"]
            /\ UNCHANGED <<model_mode, val_iter>>
    /\ UNCHANGED <<args, err, AVSModel, datasets, avg_meter_miou, max_step,
                   best_epoch, miou_list, max_miou, epoch, train_pending, grad,
                   saves, ckpt_file, dirs, copy_tries, audio_requires_grad,
                   optimizer_params, oracle, oracle_epoch>>

\* One validation batch: forward without gradients, mask_iou, meter add.
\* mask_iou is a function of the parameters and the batch: the first replica
\* to evaluate a batch in an epoch fixes the value the others obtain.
ValBatch(r) ==
    /\ pc[r] = "val"
    /\ val_iter[r] < NumValBatches
    /\ LET i == val_iter[r] + 1
           known == IF oracle_epoch = epoch[r] THEN oracle
                    ELSE [j \in DOMAIN oracle |-> Unset]
       IN \E v \in 0..MiouScale :
            /\ known[i] # Unset => v = known[i]
            /\ oracle' = [known EXCEPT ![i] = v]
            /\ oracle_epoch' = epoch[r]
            /\ avg_meter_miou' = [avg_meter_miou EXCEPT ![r] = MeterAdd(@, v)]
    /\ param' = [param EXCEPT ![r] = ValForward(@)]
    /\ val_iter' = [val_iter EXCEPT ![r] = @ + 1]
    /\ UNCHANGED <<args, pc, err, AVSModel, datasets, model_mode,
                   avg_meter_total_loss, avg_meter_iou_loss, avg_meter_sa_loss,
                   max_step, best_epoch, global_step, miou_list, max_miou,
                   epoch, train_pending, grad, logs, saves, ckpt_file, dirs, copy_tries,
                   audio_param, audio_requires_grad, optimizer_params,
                   opt_steps>>

\* End of the validation pass: pop, the best-model test and save, the
\* history, the epoch line, model.train(), and the loop head (the final
\* line after the last epoch).
ValEnd(r) ==
    /\ pc[r] = "val"
    /\ val_iter[r] = NumValBatches
    /\ IF avg_meter_miou[r].count = 0
       THEN /\ Crash(r, "ZeroDivisionError")
            /\ UNCHANGED <<args, locals, logs, saves, ckpt_file, dirs, copy_tries,
                           oracle, oracle_epoch>>
       ELSE LET miou == MeterMean(avg_meter_miou[r])
                improved == IsImprovement(miou, max_miou[r])
                attempt == improved /\ ResolvesInRun("checkpoint_dir")
                            /\ EmitsSideEffects(r)
                failure == IF improved /\ ~ResolvesInRun("checkpoint_dir")
                           THEN "NameError"
                           ELSE IF attempt /\ ~SaveSucceeds(dirs[r])
                           THEN "FileNotFoundError" ELSE "none"
            IN /\ avg_meter_miou' = [avg_meter_miou EXCEPT ![r] = EmptyMeter]
               /\ saves' = [saves EXCEPT ![r] = IF attempt THEN @ + 1 ELSE @]
               /\ IF failure # "none"
                  THEN /\ Crash(r, failure)
                       /\ UNCHANGED <<args, AVSModel, datasets, param, model_mode,
                                      avg_meter_total_loss, avg_meter_iou_loss,
                                      avg_meter_sa_loss, max_step, best_epoch,
                                      global_step, miou_list, max_miou, epoch,
                                      train_pending, grad, val_iter, logs,
                                      ckpt_file, dirs, copy_tries, audio_param,
                                      audio_requires_grad, optimizer_params,
                                      opt_steps, oracle, oracle_epoch>>
                  ELSE LET list == Append(miou_list[r], miou)
                           best == PyMax(list)
                           be == BestEpochAfter(improved, epoch[r], best_epoch[r])
                       IN /\ ckpt_file' = IF attempt
                                          THEN [exists |-> TRUE, state_dict |-> param[r]]
                                          ELSE ckpt_file
                          /\ best_epoch' = [best_epoch EXCEPT ![r] = be]
                          /\ miou_list' = [miou_list EXCEPT ![r] = list]
                          /\ max_miou' = [max_miou EXCEPT ![r] = best]
                          /\ logs' = [logs EXCEPT ![r] = Emit(r,
                                 (IF improved THEN <<SaveLine>> ELSE <<>>)
                                 \o <<ValLine(epoch[r], miou, best)>>
                                 \o LoopLines(epoch[r] + 1, best, be))]
                          /\ model_mode' = [model_mode EXCEPT ![r] = ModeAfterValidation]
                          /\ epoch' = [epoch EXCEPT ![r] = @ + 1]
                          /\ train_pending' = [train_pending EXCEPT ![r] = TrainSamples]
                          /\ pc' = [pc EXCEPT ![r] = LoopPc(epoch[r] + 1)]
                          /\ UNCHANGED <<args, err, AVSModel, datasets, param,
                                         avg_meter_total_loss, avg_meter_iou_loss,
                                         avg_meter_sa_loss, max_step, global_step,
                                         grad, val_iter, dirs, copy_tries, audio_param,
                                         audio_requires_grad, optimizer_params,
                                         opt_steps, oracle, oracle_epoch>>

Next ==
    \/ \E r \in Replicas : Main(r)
    \/ \E r \in Replicas : Start(r)
    \/ \E r \in Replicas : TrainForward(r)
    \/ AllReduce
    \/ \E r \in Replicas : TrainStep(r)
    \/ \E r \in Replicas : ValBatch(r)
    \/ \E r \in Replicas : ValEnd(r)

Spec == Init /\ [][Next]_vars

\* ------------------------------------------------------- step recognisers
\* Replica r executes ValEnd in this step (ValBatch is disabled there).
EndsValidation(r) ==
    pc[r] = "val" /\ val_iter[r] = NumValBatches /\ pc'[r] # "val"

\* Replica r executes TrainStep in this step.
TakesTrainStep(r) == pc[r] = "step" /\ pc'[r] # "step"

Last(seq) == seq[Len(seq)]

\* ------------------------------------------------------------------ C1
\* C1: after every validation pass a checkpoint is written if and only if
\* the pass's average mIoU is strictly greater than the best metric held
\* before the pass.
C1_SaveIffStrictlyBetter ==
    [][\A r \in Replicas :
         (EndsValidation(r) /\ avg_meter_miou[r].count > 0) =>
            ((saves'[r] = saves[r] + 1 /\ ckpt_file'.exists)
               <=> RatGT(MeterMean(avg_meter_miou[r]), max_miou[r]))]_vars

\* ------------------------------------------------------------------ C2
\* C2: whatever mIoU in [0, 1] the first validation pass yields, 0 included,
\* that pass becomes the best result: best_epoch is its epoch and a
\* checkpoint has been written once it is over.
C2_FirstPassIsBest ==
    \A r \in Replicas :
        Len(miou_list[r]) >= 1 => (saves[r] >= 1 /\ ckpt_file.exists)

C4_OneReplicaEmits ==
    \E d \in Replicas :
        \A r \in Replicas \ {d} : logs[r] = <<>> /\ saves[r] = 0

\* ------------------------------------------------------------------ C5
\* C5: within one epoch the sets of training samples processed by two
\* different workers are disjoint.
SeenTrain(r) == TrainSamples \ train_pending[r]

C5_ShardsDisjoint ==
    \A r1, r2 \in Replicas :
        (/\ r1 # r2
         /\ pc[r1] \in {"train", "backward", "step", "val"}
         /\ pc[r2] \in {"train", "backward", "step", "val"}
         /\ epoch[r1] = epoch[r2]) =>
            SeenTrain(r1) \cap SeenTrain(r2) = {}

\* ------------------------------------------------------------------ C6
\* C6: replicas are in lock-step at the gradient synchronisation: their
\* optimizer step counts never differ by more than the step in progress and
\* are equal at the end of each training pass, replicas with the same step
\* count hold the same parameters, and no replica waits in the collective
\* for a replica that has terminated.
C6_LockStep ==
    \A r1, r2 \in Replicas :
        /\ global_step[r1] - global_step[r2] \in {0 - 1, 0, 1}
        /\ global_step[r1] = global_step[r2] => param[r1] = param[r2]
        /\ (pc[r1] \in {"val", "done"} /\ pc[r2] \in {"val", "done"}
              /\ epoch[r1] = epoch[r2]) => global_step[r1] = global_step[r2]
        /\ pc[r1] = "backward" => pc[r2] \notin {"done", "crashed"}

\* Both replicas have stepped after drawing different batches.
C6_Witness ==
    /\ \A r \in Replicas : global_step[r] >= 1 /\ pc[r] = "train"
    /\ train_pending[1] # train_pending[2]
    /\ param[1] = param[2]

\* ------------------------------------------------------------------ C7
\* C7: every pop of a running-average accumulator is preceded by at least
\* one add since its previous pop: no pop acts on an empty window.
C7_NoPopOnEmptyWindow ==
    [][\A r \in Replicas :
         /\ EndsValidation(r) => avg_meter_miou[r].count > 0
         /\ (TakesTrainStep(r) /\ LogDue(global_step'[r])) =>
               /\ avg_meter_total_loss[r].count > 0
               /\ avg_meter_iou_loss[r].count > 0
               /\ avg_meter_sa_loss[r].count > 0]_vars

\* ------------------------------------------------------------------ C8
\* C8: a training line is emitted exactly for the batches whose step index
\* before the increment is a multiple of 50; it reports that index and the
\* averages of the three accumulators, which cover exactly the batches
\* since the previous line, and leaves the three windows empty.
WindowSince(k) == IF k = 0 THEN 1 ELSE LogEvery

C8_LogEveryFiftySteps ==
    [][\A r \in Replicas :
         /\ TakesTrainStep(r) =>
              IF global_step[r] % LogEvery = 0
              THEN /\ logs'[r] = Append(logs[r],
                         TrainLine(global_step[r], max_step[r],
                                   MeterMean(avg_meter_total_loss[r]),
                                   MeterMean(avg_meter_iou_loss[r]),
                                   MeterMean(avg_meter_sa_loss[r])))
                   /\ avg_meter_total_loss[r].count = WindowSince(global_step[r])
                   /\ avg_meter_iou_loss[r].count = WindowSince(global_step[r])
                   /\ avg_meter_sa_loss[r].count = WindowSince(global_step[r])
                   /\ avg_meter_total_loss'[r] = EmptyMeter
                   /\ avg_meter_iou_loss'[r] = EmptyMeter
                   /\ avg_meter_sa_loss'[r] = EmptyMeter
              ELSE /\ logs'[r] = logs[r]
                   /\ avg_meter_total_loss'[r] = avg_meter_total_loss[r]
                   /\ avg_meter_iou_loss'[r] = avg_meter_iou_loss[r]
                   /\ avg_meter_sa_loss'[r] = avg_meter_sa_loss[r]
         /\ (logs'[r] # logs[r] /\ Last(logs'[r]).kind = "train") =>
              TakesTrainStep(r)]_vars

\* The line of step 50 has been emitted, after the one of step 0.
C8_Witness ==
    \E r \in Replicas :
        \E i, j \in DOMAIN logs[r] :
            /\ i < j
            /\ logs[r][i].kind = "train" /\ logs[r][i].step = 0
            /\ logs[r][j].kind = "train" /\ logs[r][j].step = LogEvery

C10_UnknownBackboneFailsFast ==
    \A r \in Replicas :
        Lower(args.visual_backbone) \notin {NameResnet, NamePvt} =>
            /\ pc[r] \in {"main", "start", "crashed"}
            /\ pc[r] = "crashed" => err[r] \in {"NotImplementedError", "IOError"}
            /\ AVSModel[r] = "none"
            /\ ~datasets[r]
            /\ param[r] = 0
            /\ global_step[r] = 0
            /\ saves[r] = 0
            /\ ~ckpt_file.exists

\* A process has raised on the unknown name.
C10_Witness ==
    \E r \in Replicas : pc[r] = "crashed" /\ err[r] = "NotImplementedError"

C12_SlotHoldsSavedParameters ==
    [][\A r \in Replicas :
         (/\ EndsValidation(r)
          /\ avg_meter_miou[r].count > 0
          /\ IsImprovement(MeterMean(avg_meter_miou[r]), max_miou[r])) =>
            ckpt_file' = [exists |-> TRUE, state_dict |-> param[r]]]_vars

\* ----------------------------------------------------------------- C13
\* C13: the audio feature extractor is frozen for the whole run: its
\* parameters are not among the optimizer's, do not require gradients, and
\* keep their start-up values through training and validation.
C13_AudioBackboneFrozen ==
    \A r \in Replicas :
        datasets[r] =>
            /\ "audio_backbone" \notin optimizer_params[r]
            /\ ~audio_requires_grad[r]
            /\ audio_param[r] = 0

\* A replica has trained (its model moved) and finished a validation pass.
C13_Witness ==
    \E r \in Replicas :
        /\ opt_steps[r] >= 2
        /\ param[r] # 0
        /\ Len(miou_list[r]) >= 1
        /\ audio_param[r] = 0

\* ----------------------------------------------------------------- C14
\* Replica r records the loss of one training batch in this step.
RecordsBatch(r) == pc[r] = "train" /\ pc'[r] = "backward"

AuxiliaryDisabled == ~args.sa_loss_flag \/ args.sa_loss_stages = {}

\* C14: when the auxiliary loss is disabled or no stage is selected, the
\* auxiliary term recorded for a training batch is exactly 0 and the total
\* loss recorded equals the primary loss, whatever the weight; every
\* training line then reports equal total and primary averages and a zero
\* auxiliary average.
C14_AuxiliaryTermZeroWhenDisabled ==
    [][\A r \in Replicas :
         AuxiliaryDisabled =>
            /\ RecordsBatch(r) =>
                 /\ avg_meter_sa_loss'[r].sum = avg_meter_sa_loss[r].sum
                 /\ avg_meter_total_loss'[r].sum - avg_meter_total_loss[r].sum
                      = avg_meter_iou_loss'[r].sum - avg_meter_iou_loss[r].sum
                 /\ avg_meter_total_loss'[r].count = avg_meter_total_loss[r].count + 1
            /\ \A i \in 1..Len(logs'[r]) :
                 logs'[r][i].kind = "train" =>
                    /\ RatEq(logs'[r][i].total, logs'[r][i].iou)
                    /\ logs'[r][i].sa[1] = 0]_vars

\* A batch with a non-zero primary loss has been recorded and logged while
\* the flag is off, the weight is 2 and a stage is selected.
C14_Witness ==
    \E r \in Replicas :
        /\ ~args.sa_loss_flag /\ args.lambda_1 = 2 /\ args.sa_loss_stages # {}
        /\ opt_steps[r] >= 2
        /\ avg_meter_total_loss[r].count = 1
        /\ avg_meter_total_loss[r].sum > 0
        /\ \E i \in 1..Len(logs[r]) :
              logs[r][i].kind = "train" /\ logs[r][i].total[1] > 0

\* ----------------------------------------------------------------- C15
\* len(train_dataloader): the last, short batch is kept.
NumTrainBatches ==
    (args.train_size + args.train_batch_size - 1) \div args.train_batch_size

\* Training batches replica r has taken from the loader since the start:
\* all batches of the finished epochs plus those of the current epoch.
BatchesFetched(r) ==
    epoch[r] * NumTrainBatches
      + (Cardinality(SeenTrain(r)) + args.train_batch_size - 1)
           \div args.train_batch_size

\* C15: global_step starts at 0, grows by exactly 1 with the optimizer step
\* of each training batch, is changed by nothing else (epoch boundaries and
\* validation included), so it counts the batches trained on so far, and
\* at the end of the run it is the number of training batches of all epochs.
C15_GlobalStepCountsBatches ==
    /\ [](\A r \in Replicas :
            datasets[r] =>
               /\ global_step[r] = opt_steps[r]
               /\ global_step[r] =
                    BatchesFetched(r)
                      - (IF pc[r] \in {"backward", "step"} THEN 1 ELSE 0)
               /\ pc[r] = "done" =>
                    global_step[r] = NumTrainBatches * args.max_epoches)
    /\ [][\A r \in Replicas :
            /\ global_step'[r] >= global_step[r]
            /\ TakesTrainStep(r) => global_step'[r] = global_step[r] + 1
            /\ ~TakesTrainStep(r) => global_step'[r] = global_step[r]]_vars

\* A run of several epochs of several batches each has reached its end.
C15_Witness ==
    \E r \in Replicas :
        /\ pc[r] = "done"
        /\ args.max_epoches >= 2
        /\ NumTrainBatches >= 2
        /\ global_step[r] = NumTrainBatches * args.max_epoches

\* ----------------------------------------------------------------- C16
\* C16: every training batch of every epoch is processed in training mode
\* and every validation batch in evaluation mode; validation starts only
\* after the training loader is exhausted and ends only after the
\* validation loader is; each finished epoch has had exactly one validation
\* pass, and the model is back in training mode before the next epoch's
\* first training batch.
C16_ModePerPass ==
    \A r \in Replicas :
        /\ pc[r] \in {"train", "backward", "step"} =>
              /\ model_mode[r] = "train"
              /\ Len(miou_list[r]) = epoch[r]
              /\ epoch[r] < args.max_epoches
        /\ pc[r] = "val" =>
              /\ model_mode[r] = "eval"
              /\ train_pending[r] = {}
              /\ val_iter[r] <= NumValBatches
              /\ Len(miou_list[r]) = epoch[r]
        /\ pc[r] = "done" =>
              /\ epoch[r] = args.max_epoches
              /\ Len(miou_list[r]) = args.max_epoches
              /\ avg_meter_miou[r] = EmptyMeter

\* A replica is in the middle of a training batch of a later epoch.
C16_Witness ==
    \E r \in Replicas :
        /\ pc[r] = "backward"
        /\ epoch[r] >= 2
        /\ Len(miou_list[r]) = epoch[r]
        /\ model_mode[r] = "train"

\* ----------------------------------------------------------------- C17
\* Adds the loss meters hold when global_step is gs and no batch is in
\* progress: the window was emptied by the log at steps 1, 51, 101, ...
WindowAt(gs) == IF gs = 0 THEN 0 ELSE (gs - 1) % LogEvery

\* Training lines replica r has logged.
TrainLines(r) == { i \in 1..Len(logs[r]) : logs[r][i].kind = "train" }

\* The loss of the batch in progress has been computed and the optimizer
\* has not yet stepped on it.
AwaitsOptimizer(r) == pc[r] \in {"backward", "step"}

InValidation(r) == pc[r] = "val" /\ (val_iter'[r] # val_iter[r] \/ pc'[r] # "val")

\* C18: no step of a validation pass changes the model's parameters, the
\* optimizer (its parameter groups and step count), the audio backbone,
\* global_step, the gradients or the three loss accumulators.
C18_ValidationLeavesTrainingState ==
    [][\A r \in Replicas :
         InValidation(r) =>
            /\ param'[r] = param[r]
            /\ opt_steps'[r] = opt_steps[r]
            /\ optimizer_params'[r] = optimizer_params[r]
            /\ audio_param'[r] = audio_param[r]
            /\ grad'[r] = grad[r]
            /\ global_step'[r] = global_step[r]
            /\ avg_meter_total_loss'[r] = avg_meter_total_loss[r]
            /\ avg_meter_iou_loss'[r] = avg_meter_iou_loss[r]
            /\ avg_meter_sa_loss'[r] = avg_meter_sa_loss[r]]_vars

\* A validation pass of two batches has been completed by a replica whose
\* parameters training had moved and whose loss window is not empty.
C18_Witness ==
    \E r \in Replicas :
        /\ NumValBatches >= 2
        /\ Len(miou_list[r]) >= 1
        /\ param[r] # 0
        /\ avg_meter_total_loss[r].count >= 1
        /\ global_step[r] >= 2

\* ----------------------------------------------------------------- C19
\* C19: every validation pass that yields an average mIoU appends it to
\* the history, new best or not, and emits exactly one epoch line with the
\* epoch index, that mIoU and the best so far; the history then has one
\* entry per completed epoch, the best so far is the maximum of the history
\* and is not below what it was.
C19_EveryPassRecorded ==
    [][\A r \in Replicas :
         (EndsValidation(r) /\ avg_meter_miou[r].count > 0) =>
            LET miou == MeterMean(avg_meter_miou[r])
                added == SubSeq(logs'[r], Len(logs[r]) + 1, Len(logs'[r]))
                epochLines == { i \in DOMAIN added : added[i].kind = "val" }
            IN /\ miou_list'[r] = Append(miou_list[r], miou)
               /\ Len(miou_list'[r]) = epoch[r] + 1
               /\ RatEq(max_miou'[r], PyMax(miou_list'[r]))
               /\ ~RatGT(max_miou[r], max_miou'[r])
               /\ Cardinality(epochLines) = 1
               /\ \A i \in epochLines :
                    added[i] = ValLine(epoch[r], miou, max_miou'[r])]_vars

\* ----------------------------------------------------------------- C20
\* C20: the step index of every training line is strictly less than the
\* planned total (len(train_dataset) // train_batch_size) * max_epoches
\* reported in the same line, and at the end of the run global_step equals
\* that total, whatever the dataset size, batch size and epoch count.
C20_StepsWithinPlannedTotal ==
    \A r \in Replicas :
        /\ \A i \in TrainLines(r) :
              /\ logs[r][i].max_step = MaxStepOf(args)
              /\ logs[r][i].step < logs[r][i].max_step
        /\ pc[r] = "done" => global_step[r] = MaxStepOf(args)

====
